---- MODULE Spec2Model ----
(***************************************************************************)
(* Model of package auth of firebase-go: the Verifier, its background      *)
(* certificate refresh loop (fetchCertLoop / fetchCerts) and Verify.       *)
(*                                                                         *)
(* A time.Duration is a 64-bit signed count of nanoseconds, kept as the     *)
(* eight bytes of its two's-complement value so that the arithmetic of the *)
(* code wraps as it does in Go.  The wall clock counts seconds.  A         *)
(* public key is named by the PEM it was parsed from; a token's signature  *)
(* verifies under exactly one key.                                         *)
(* Client.Send of package fcm takes the outcome of its HTTP exchange as    *)
(* input.                                                                  *)
(***************************************************************************)
EXTENDS Integers, Sequences, FiniteSets, TLC

\* ------------------------------------------------------------------ bounds
\* Number of fetch attempts the refresh loop makes in a run.
MaxFetches == 2
\* Number of fetch attempts the refresh loop makes through an outage.
MaxRounds == 36
\* The wall clock runs over 0..MaxTime.
MaxTime == 1

\* --------------------------------------------------------------- constants
\* expiry := 10 * time.Minute, in seconds.
DefaultExpiry == 600
\* failExpiry := 1 * time.Second, in seconds.
InitialFailExpiry == 1

\* ------------------------------------------------- int and time.Duration
\* An int64 is the eight bytes of its two's-complement value, least
\* significant first.  I64(n) is the int64 of a small non-negative number.
I64(n) == <<n % 256, (n \div 256) % 256, (n \div 65536) % 256, n \div 16777216, 0, 0, 0, 0>>
Zero64 == I64(0)
MinusOne64 == <<255, 255, 255, 255, 255, 255, 255, 255>>

\* a * b by long multiplication: byte p of the product is the sum of the
\* byte products of column p plus the carry of column p - 1.  The carry out
\* of the eighth column is dropped, so the product wraps modulo 2^64.
Term(a, b, p, j) == IF j <= p THEN a[p + 1 - j] * b[j] ELSE 0
Column(a, b, p) ==
    Term(a, b, p, 1) + Term(a, b, p, 2) + Term(a, b, p, 3) + Term(a, b, p, 4)
    + Term(a, b, p, 5) + Term(a, b, p, 6) + Term(a, b, p, 7) + Term(a, b, p, 8)
Mul64(a, b) ==
    LET s1 == Column(a, b, 1)
        s2 == Column(a, b, 2) + s1 \div 256
        s3 == Column(a, b, 3) + s2 \div 256
        s4 == Column(a, b, 4) + s3 \div 256
        s5 == Column(a, b, 5) + s4 \div 256
        s6 == Column(a, b, 6) + s5 \div 256
        s7 == Column(a, b, 7) + s6 \div 256
        s8 == Column(a, b, 8) + s7 \div 256
    IN  <<s1 % 256, s2 % 256, s3 % 256, s4 % 256, s5 % 256, s6 % 256, s7 % 256, s8 % 256>>
Neg64(a) == Mul64(a, MinusOne64)

\* The sign bit, and a < b as signed numbers.
IsNeg64(a) == a[8] >= 128
Less64(a, b) ==
    IF IsNeg64(a) # IsNeg64(b) THEN IsNeg64(a)
    ELSE \E i \in 1..8 : a[i] < b[i] /\ \A j \in (i + 1)..8 : a[j] = b[j]

\* time.Second in nanoseconds, and the Duration of n seconds for a small n.
Second == I64(1000000000)
Seconds(n) == Mul64(I64(n), Second)
\* 10 * time.Minute.
DefaultDuration == Seconds(DefaultExpiry)

Callers == {1, 2}
Kids == {"k1", "k2"}
PEMs == {"pemA", "pemB", "junk"}
NoKey == "nokey"

projectID == "projectID"
issuer == "https://securetoken.google.com/" \o projectID

\* ------------------------------------------------- external collaborators
\* crypto.ParseRSAPublicKeyFromPEM: a well-formed PEM gives its key, anything
\* else an error.
ParsePEMOk(pem) == pem \in {"pemA", "pemB"}
ParsePEMKey(pem) == IF pem = "pemA" THEN "keyA" ELSE IF pem = "pemB" THEN "keyB" ELSE NoKey

\* The nil / empty map.
EmptyMap == [k \in {} |-> NoKey]

\* ------------------------------------------------------------- fetchCerts
\* One directive of a Cache-Control header: its name, and for max-age whether
\* strconv.Atoi accepts the argument and the int it gives.
MaxAgeDir(n) == [name |-> "max-age", num |-> TRUE, val |-> n]
BadMaxAgeDir == [name |-> "max-age", num |-> FALSE, val |-> Zero64]
OtherDir == [name |-> "public", num |-> FALSE, val |-> Zero64]

\* The loop over the parts of the header: the last max-age wins, an argument
\* that is no integer ends the loop with the expiry found so far.
RECURSIVE ParseMaxAge(_, _)
ParseMaxAge(parts, exp) ==
    IF parts = <<>> THEN exp
    ELSE LET part == Head(parts) IN
         IF part.name = "max-age"
         THEN IF ~part.num THEN exp
              ELSE ParseMaxAge(Tail(parts), Mul64(part.val, Second))
         ELSE ParseMaxAge(Tail(parts), exp)

\* expiry of a response: max-age, the default when negative.
ResponseExpiry(cacheControl) ==
    LET e == ParseMaxAge(cacheControl, DefaultDuration)
    IN  IF IsNeg64(e) THEN DefaultDuration ELSE e

\* An HTTP exchange: a transport error, a body that is no JSON object of
\* strings, or a body mapping key ids to PEM strings, with its header.
TransportError == [kind |-> "transport", body |-> EmptyMap, cacheControl |-> <<>>]
DecodeError == [kind |-> "decode", body |-> EmptyMap, cacheControl |-> <<>>]
OkResponse(body, cc) == [kind |-> "ok", body |-> body, cacheControl |-> cc]
\* No exchange.
NoResponse == [kind |-> "none", body |-> EmptyMap, cacheControl |-> <<>>]

\* The (certs, expiry, err) fetchCerts returns for an exchange.
fetchCerts(resp) ==
    IF resp.kind = "transport" THEN [certs |-> EmptyMap, expiry |-> Zero64, err |-> "transport"]
    ELSE IF resp.kind = "decode" THEN [certs |-> EmptyMap, expiry |-> Zero64, err |-> "decode"]
    ELSE IF \E k \in DOMAIN resp.body : ~ParsePEMOk(resp.body[k])
         THEN [certs |-> EmptyMap, expiry |-> Zero64, err |-> "pem"]
         ELSE [certs |-> [k \in DOMAIN resp.body |-> ParsePEMKey(resp.body[k])],
               expiry |-> ResponseExpiry(resp.cacheControl),
               err |-> "nil"]

\* ------------------------------------------------------------------ tokens
\* A dynamically typed JSON value: absent, a string, a number or a boolean.
Absent == [t |-> "absent", v |-> 0]
Str(s) == [t |-> "str", v |-> s]
Num(n) == [t |-> "num", v |-> n]
Bool(b) == [t |-> "bool", v |-> b]

\* x.(string), x.(bool): the value and ok; the zero value when not ok.
IsString(c) == c.t = "str"
AsString(c) == IF c.t = "str" THEN c.v ELSE ""
AsBool(c) == IF c.t = "bool" THEN c.v ELSE FALSE
\* A claim read as a time whatever its type: a missing iat would count as
\* time zero.  C13 must tell this from GetTime's ok.
IsTimeUnchecked(c) == TRUE
\* jwt.Claims.GetTime: a number is a time in seconds, anything else not ok.
IsTime(c) == c.t = "num"
AsTime(c) == IF c.t = "num" THEN c.v ELSE 0

\* A compact token as jws.ParseCompact sees it: whether it parses, the alg
\* and kid values of its protected header, the key its signature verifies
\* under, whether its payload is a JSON object, and the claims of interest.
Token(alg, kid, signer, exp, iat, aud, iss, sub, uid, email, ev, sip) ==
    [parses |-> TRUE, alg |-> alg, kid |-> kid, signer |-> signer, isMap |-> TRUE,
     exp |-> exp, iat |-> iat, aud |-> aud, iss |-> iss, sub |-> sub, user_id |-> uid,
     email |-> email, email_verified |-> ev, sign_in_provider |-> sip]

\* --------------------------------------------------------- Verify, results
ZeroUser == [ID |-> "", SignInProvider |-> "", EmailVerified |-> FALSE, Email |-> ""]
Pending == [err |-> "pending", isUser |-> FALSE, user |-> ZeroUser]
Fail(e) == [err |-> e, isUser |-> FALSE, user |-> ZeroUser]
Ok(u) == [err |-> "nil", isUser |-> TRUE, user |-> u]

ErrParse == "auth: parse error"
ErrAlg == "auth: alg is not RS256"
ErrKid == "auth: invalid kid"
ErrUnknownKid == "auth: unknown kid"
ErrSignature == "auth: verification failure"
ErrPayload == "auth: unexpected payload type"
ErrExpired == "auth: expired token"
ErrIssuedInFuture == "auth: token issued in the future"
ErrAudience == "auth: unexpected project ID"
ErrIssuer == "auth: unexpected issuer"
ErrSubject == "auth: invalid sub or user_id"
ErrContext == "context canceled"

\* Parse and step 1 of Verify (alg and kid): the error, or "nil" to go on.
CheckHeader(tok) ==
    IF ~tok.parses THEN ErrParse
    ELSE IF ~IsString(tok.alg) \/ AsString(tok.alg) # "RS256" THEN ErrAlg
    ELSE IF ~IsString(tok.kid) THEN ErrKid
    ELSE "nil"

\* After that also holds of equal times, as !iat.Before(now) would.  C10 must
\* tell the two apart.
AfterOrEqual(a, b) == a >= b

\* exp.Before(now), iat.After(now).
Before(a, b) == a < b
After(a, b) == a > b

\* The User built from the claims.
BuildUser(tok) ==
    [ID |-> AsString(tok.user_id),
     SignInProvider |-> AsString(tok.sign_in_provider),
     EmailVerified |-> AsBool(tok.email_verified),
     Email |-> AsString(tok.email)]

\* aud, ok := claims.Get("aud").(string); !ok || aud != v.projectID
BadAudience(c) == ~IsString(c) \/ AsString(c) # projectID

\* An issuer check that accepts the token issuer of any project.
BadIssuerTypeOnly(c) == ~IsString(c)

\* iss, ok := claims.Get("iss").(string); !ok || iss != v.issuer
BadIssuer(c) == ~IsString(c) \/ AsString(c) # issuer

\* A subject check that forgets to compare sub with user_id.
BadSubjectNoCompare(sub, userID) == AsString(sub) = "" \/ AsString(userID) = ""

\* sub == "" || userID == "" || sub != userID, on the asserted strings.
BadSubject(sub, userID) ==
    \/ AsString(sub) = ""
    \/ AsString(userID) = ""
    \/ AsString(sub) # AsString(userID)

\* The checks of Verify with the issuer tested before the audience.
CheckTokenIssuerFirst(tok, ok, key, now) ==
    IF ~ok THEN Fail(ErrUnknownKid)
    ELSE IF tok.signer # key THEN Fail(ErrSignature)
    ELSE IF ~tok.isMap THEN Fail(ErrPayload)
    ELSE IF ~IsTime(tok.exp) \/ Before(AsTime(tok.exp), now) THEN Fail(ErrExpired)
    ELSE IF ~IsTime(tok.iat) \/ After(AsTime(tok.iat), now) THEN Fail(ErrIssuedInFuture)
    ELSE IF BadIssuer(tok.iss) THEN Fail(ErrIssuer)
    ELSE IF BadAudience(tok.aud) THEN Fail(ErrAudience)
    ELSE IF BadSubject(tok.sub, tok.user_id) THEN Fail(ErrSubject)
    ELSE Ok(BuildUser(tok))

\* Verify from the key lookup on: ok and key are the result of v.certs[kid],
\* now is time.Now() read after the signature check.
CheckToken(tok, ok, key, now) ==
    IF ~ok THEN Fail(ErrUnknownKid)
    ELSE IF tok.signer # key THEN Fail(ErrSignature)
    ELSE IF ~tok.isMap THEN Fail(ErrPayload)
    ELSE IF ~IsTime(tok.exp) \/ Before(AsTime(tok.exp), now) THEN Fail(ErrExpired)
    ELSE IF ~IsTime(tok.iat) \/ After(AsTime(tok.iat), now) THEN Fail(ErrIssuedInFuture)
    ELSE IF BadAudience(tok.aud) THEN Fail(ErrAudience)
    ELSE IF BadIssuer(tok.iss) THEN Fail(ErrIssuer)
    ELSE IF BadSubject(tok.sub, tok.user_id) THEN Fail(ErrSubject)
    ELSE Ok(BuildUser(tok))

\* ------------------------------------------------------------- Client.Send
ErrMarshal == "fcm: cannot marshal msg"
ErrDo == "fcm: client.Do error"
ErrInvalidRequest == "fcm: invalid request"
ErrAuthenticationFailure == "fcm: authentication failure"
ErrDecodeResponse == "fcm: could not decode response"
ErrUnexpectedStatus == "fcm: unexpected status code"
ErrServer == "fcm: server returned HTTP"

\* The status codes net/http hands on: three digits, from 100.
StatusCodes == 100..999
\* Values of the Retry-After header: none, a Go duration, a number of seconds.
RetryAfters == {"", "30s", "120"}
\* time.ParseDuration, its error dropped: the zero Duration for what is no
\* Go duration.
ParseDuration(h) == IF h = "30s" THEN Seconds(30) ELSE Zero64

\* What c.client.Do gives: an error, or a response with its status code, its
\* Retry-After header and whether its body decodes into a Response.
DoError == [kind |-> "error", status |-> 0, retryAfter |-> "", decodes |-> FALSE]
DoResponse(status, retryAfter, decodes) ==
    [kind |-> "response", status |-> status, retryAfter |-> retryAfter, decodes |-> decodes]
NoExchange == [kind |-> "none", status |-> 0, retryAfter |-> "", decodes |-> FALSE]
Exchanges ==
    {DoError} \cup {DoResponse(s, h, d) : s \in StatusCodes, h \in RetryAfters, d \in BOOLEAN}

\* What Send returns: whether the *Response is non-nil and its RetryAfter,
\* and the error: nil, an error value with its message, or a *ServerError
\* with its StatusCode and RetryAfter.
NoError == [type |-> "nil", msg |-> "", StatusCode |-> 0, RetryAfter |-> Zero64]
ErrorValue(msg) == [type |-> "error", msg |-> msg, StatusCode |-> 0, RetryAfter |-> Zero64]
ServerError(status, retryAfter) ==
    [type |-> "*ServerError", msg |-> ErrServer, StatusCode |-> status, RetryAfter |-> retryAfter]
SendFail(err) == [response |-> FALSE, RetryAfter |-> Zero64, err |-> err]
SendOk(retryAfter) == [response |-> TRUE, RetryAfter |-> retryAfter, err |-> NoError]

\* A 5xx test that starts above 500.
IsServerStatusAbove(status) == 500 < status /\ status < 600

\* 500 <= resp.StatusCode && resp.StatusCode < 600.
IsServerStatus(status) == 500 <= status /\ status < 600

\* Send from the return of c.client.Do on.
Respond(x) ==
    IF x.kind = "error" THEN SendFail(ErrorValue(ErrDo))
    ELSE LET retryAfter == ParseDuration(x.retryAfter) IN
         IF IsServerStatus(x.status) THEN SendFail(ServerError(x.status, retryAfter))
         ELSE IF x.status = 400 THEN SendFail(ErrorValue(ErrInvalidRequest))
         ELSE IF x.status = 401 THEN SendFail(ErrorValue(ErrAuthenticationFailure))
         ELSE IF x.status = 200
              THEN IF ~x.decodes THEN SendFail(ErrorValue(ErrDecodeResponse))
                   ELSE SendOk(retryAfter)
         ELSE SendFail(ErrorValue(ErrUnexpectedStatus))

\* No call of Send.
NoSend == [pc |-> "idle"]

\* ------------------------------------------------------------------- state
VARIABLES
    certs,        \* Verifier.certs: key id -> public key
    haveCerts,    \* Verifier.haveCerts: "open" or "closed"
    closes,       \* number of close(v.haveCerts) executed
    readers,      \* Verifier.mu: number of read locks held
    writer,       \* Verifier.mu: the write lock is held
    govDone,      \* the context given to NewVerifier is cancelled
    now,          \* the wall clock
    lpc,          \* fetchCertLoop: position
    fetched,      \* fetchCertLoop: certs, of the last fetchCerts
    expiry,       \* fetchCertLoop: expiry
    lerr,         \* fetchCertLoop: err, of the last fetchCerts
    failExpiry,   \* fetchCertLoop: failExpiry
    firstFetch,   \* fetchCertLoop: firstFetch
    nfetch,       \* number of fetchCerts calls made
    certsAtFetch, \* v.certs when the last fetchCerts was called
    lateWait,     \* the loop reached its select with the governing context cancelled
    everLoaded,   \* a non-empty key set has been published
    announced,    \* the key set the close of haveCerts announced, until the next publish
    okResp,       \* the response of the last fetchCerts, when it returned no error
    afterOk,      \* the iteration before fetched without error and left no key set published
    vpc,          \* Verify, per caller: position
    vtok,         \* Verify: token
    vctx,         \* Verify: ctx is the governing context ("gov") or the caller's own ("own")
    ownDone,      \* Verify: the caller's own context is cancelled
    vok,          \* Verify: ok, of key, ok := v.certs[kid]
    vkey,         \* Verify: key
    vnow,         \* Verify: now
    sigAtStart,   \* Verify: haveCerts was closed when the call started
    result,       \* Verify: what the call returned
    send          \* Client.Send: the call, its exchange with the FCM server and what it returned

histVars == <<okResp, afterOk>>
loopVars == <<lpc, fetched, expiry, lerr, failExpiry, firstFetch, nfetch, certsAtFetch,
              lateWait, okResp, afterOk>>
sharedVars == <<certs, haveCerts, closes, everLoaded, announced>>
lockVars == <<readers, writer>>
callVars == <<vpc, vtok, vctx, ownDone, vok, vkey, vnow, sigAtStart, result>>
vars == <<certs, haveCerts, closes, readers, writer, govDone, now, lpc, fetched, expiry,
          lerr, failExpiry, firstFetch, nfetch, certsAtFetch, lateWait, everLoaded, announced,
          okResp, afterOk, vpc, vtok, vctx, ownDone, vok, vkey, vnow, sigAtStart, result,
          send>>

\* ------------------------------------------------------------ inputs drawn
\* Bodies of a key-distribution response: key ids mapped to PEM strings.
\* The issuer's certificates; a response carries some of them, some of them
\* possibly damaged.
IssuerCerts == [k \in Kids |-> IF k = "k1" THEN "pemA" ELSE "pemB"]
Bodies ==
    {[k \in S |-> IF k \in J THEN "junk" ELSE IssuerCerts[k]] :
        <<S, J>> \in {<<S, J>> \in (SUBSET Kids) \X (SUBSET Kids) : J \subseteq S}}
CacheControls == {<<>>, <<MaxAgeDir(Zero64)>>}
\* The keys published after a fetch of all the issuer's certificates.
IssuerKeys == fetchCerts(OkResponse(IssuerCerts, <<>>)).certs
Responses == {TransportError, DecodeError}
                 \cup {OkResponse(b, cc) : b \in Bodies, cc \in CacheControls}

\* A token that passes every check when its key is published and now <= exp.
GoodToken(kid, signer, exp) ==
    Token(Str("RS256"), Str(kid), signer, Num(exp), Num(0), Str(projectID), Str(issuer),
          Str("sub"), Str("sub"), Absent, Absent, Absent)
SampleTokens ==
    {GoodToken("k1", "keyA", 0),
     GoodToken("k3", "keyB", 1),
     [GoodToken("k1", "keyA", 1) EXCEPT !.alg = Str("HS256")]}

\* -------------------------------------------------------------------- Init
\* NewVerifier: no certs, haveCerts open, the loop about to fetch.
Init ==
    /\ certs = EmptyMap
    /\ haveCerts = "open"
    /\ closes = 0
    /\ readers = 0
    /\ writer = FALSE
    /\ govDone = FALSE
    /\ now = 0
    /\ lpc = "fetch"
    /\ fetched = EmptyMap
    /\ expiry = Zero64
    /\ lerr = "nil"
    /\ failExpiry = Seconds(InitialFailExpiry)
    /\ firstFetch = TRUE
    /\ nfetch = 0
    /\ certsAtFetch = EmptyMap
    /\ lateWait = FALSE
    /\ everLoaded = FALSE
    /\ announced = EmptyMap
    /\ okResp = NoResponse
    /\ afterOk = FALSE
    /\ vpc = [i \in Callers |-> "idle"]
    /\ vtok = [i \in Callers |-> GoodToken("k1", "keyA", 0)]
    /\ vctx = [i \in Callers |-> "gov"]
    /\ ownDone = [i \in Callers |-> FALSE]
    /\ vok = [i \in Callers |-> FALSE]
    /\ vkey = [i \in Callers |-> NoKey]
    /\ vnow = [i \in Callers |-> 0]
    /\ sigAtStart = [i \in Callers |-> FALSE]
    /\ result = [i \in Callers |-> Pending]
    /\ send = NoSend

\* ----------------------------------------------------------- fetchCertLoop
\* AfterFetch without the test of err: the loop publishes what fetchCerts
\* returned also when it failed.  C2 must tell the two apart.
AfterFetchIgnoringErr(err) == "lock"

\* if err == nil: the loop publishes, else it looks at the certs it has.
AfterFetch(err) == IF err = "nil" THEN "lock" ELSE "rlock"

\* Publish that does not store the fetched certs.  C9 must tell the two apart.
PublishNothing(new, old) == old

\* A publication that adds the fetched keys to the ones already there.
PublishMerged(new, old) ==
    [k \in DOMAIN new \cup DOMAIN old |-> IF k \in DOMAIN new THEN new[k] ELSE old[k]]

\* v.certs = certs.
Publish(new, old) == new

\* ShouldSignal with the test of firstFetch inverted: the channel is never
\* closed.  C3 must tell the two apart.
ShouldSignalNever(first, c) == ~first /\ DOMAIN c # {}

\* ShouldSignal without the test of len(certs): the first successful fetch
\* closes the channel even with no keys.  C4 must tell the two apart.
ShouldSignalFirstFetch(first, c) == first

\* ShouldSignal without the test of firstFetch: every successful fetch with
\* keys closes the channel.  C8 must tell the two apart.
ShouldSignalAnyKeys(first, c) == DOMAIN c # {}

\* if firstFetch && len(certs) > 0.
ShouldSignal(first, c) == first /\ DOMAIN c # {}

\* SignalState of a signal that follows the current key set instead of
\* latching: it is taken back when a fetch brings no first keys.  C5 must tell
\* the two apart.
SignalStateUnlatched(h, should) == IF should THEN "closed" ELSE "open"

\* close(v.haveCerts): the channel stays closed for good.
SignalState(h, should) == IF should THEN "closed" ELSE h

\* failExpiry *= 2.
Backoff(d) == Mul64(d, I64(2))

\* certs, expiry, err := v.fetchCerts(ctx).  A request made with a cancelled
\* context fails in the transport.
LoopFetch(resps, max) ==
    /\ lpc = "fetch"
    /\ nfetch < max
    /\ \E resp \in (IF govDone THEN {TransportError} ELSE resps) :
          LET r == fetchCerts(resp) IN
          /\ fetched' = r.certs
          /\ expiry' = r.expiry
          /\ lerr' = r.err
          /\ lpc' = AfterFetch(r.err)
          /\ okResp' = IF r.err = "nil" THEN resp ELSE NoResponse
    /\ nfetch' = nfetch + 1
    /\ certsAtFetch' = certs
    /\ UNCHANGED <<send, failExpiry, firstFetch, lateWait, afterOk, sharedVars, lockVars, govDone, now,
                   callVars>>

\* A Lock that does not wait for the readers to leave.
LoopLockIgnoringReaders ==
    /\ lpc = "lock"
    /\ ~writer
    /\ writer' = TRUE
    /\ lpc' = "write"
    /\ UNCHANGED <<send, fetched, expiry, lerr, failExpiry, firstFetch, nfetch, certsAtFetch,
                   lateWait, histVars, sharedVars, readers, govDone, now, callVars>>

\* v.mu.Lock().
LoopLock ==
    /\ lpc = "lock"
    /\ readers = 0
    /\ ~writer
    /\ writer' = TRUE
    /\ lpc' = "write"
    /\ UNCHANGED <<send, fetched, expiry, lerr, failExpiry, firstFetch, nfetch, certsAtFetch,
                   lateWait, histVars, sharedVars, readers, govDone, now, callVars>>

\* v.certs = certs; v.mu.Unlock().
LoopPublish ==
    /\ lpc = "write"
    /\ certs' = Publish(fetched, certs)
    /\ everLoaded' = (everLoaded \/ DOMAIN certs' # {})
    /\ announced' = EmptyMap
    /\ writer' = FALSE
    /\ lpc' = "signal"
    /\ UNCHANGED <<send, fetched, expiry, lerr, failExpiry, firstFetch, nfetch, certsAtFetch,
                   lateWait, histVars, haveCerts, closes, readers, govDone, now, callVars>>

\* if firstFetch && len(certs) > 0 { close(v.haveCerts); firstFetch = false };
\* nextFetch = time.After(expiry).
LoopSignal ==
    /\ lpc = "signal"
    /\ LET should == ShouldSignal(firstFetch, fetched) IN
          /\ haveCerts' = SignalState(haveCerts, should)
          /\ closes' = IF should THEN closes + 1 ELSE closes
          /\ firstFetch' = IF should THEN FALSE ELSE firstFetch
          /\ announced' = IF should THEN fetched ELSE announced
    /\ lpc' = "select"
    /\ lateWait' = govDone
    /\ UNCHANGED <<send, fetched, expiry, lerr, failExpiry, nfetch, certsAtFetch, certs,
                   histVars, everLoaded, lockVars, govDone, now, callVars>>

\* The else branch: gotCerts := len(v.certs) > 0 under the read lock; with no
\* certs expiry = failExpiry and failExpiry doubles.  nextFetch = time.After(expiry).
LoopCheckCerts ==
    /\ lpc = "rlock"
    /\ ~writer
    /\ LET gotCerts == DOMAIN certs # {} IN
          IF ~gotCerts
          THEN /\ expiry' = failExpiry
               /\ failExpiry' = Backoff(failExpiry)
          ELSE UNCHANGED <<expiry, failExpiry>>
    /\ lpc' = "select"
    /\ lateWait' = govDone
    /\ UNCHANGED <<send, fetched, lerr, firstFetch, nfetch, certsAtFetch, histVars, sharedVars,
                   lockVars, govDone, now, callVars>>

\* select: case <-ctx.Done(): return.
LoopExit ==
    /\ lpc = "select"
    /\ govDone
    /\ lpc' = "done"
    /\ okResp' = NoResponse
    /\ afterOk' = FALSE
    /\ fetched' = EmptyMap
    /\ expiry' = Zero64
    /\ lerr' = "nil"
    /\ certsAtFetch' = EmptyMap
    /\ lateWait' = FALSE
    /\ UNCHANGED <<send, failExpiry, firstFetch, nfetch, sharedVars, lockVars, govDone, now,
                   callVars>>

\* select: case <-nextFetch.  The timer is ready when the select is reached
\* if expiry is zero or less; otherwise it fires while the loop is blocked in
\* the select, which a cancellation of the context ends first.
LoopTimer ==
    /\ lpc = "select"
    /\ ~govDone \/ ~Less64(Zero64, expiry)
    /\ lpc' = "fetch"
    /\ okResp' = NoResponse
    /\ afterOk' = (lerr = "nil" /\ DOMAIN certs = {})
    /\ fetched' = EmptyMap
    /\ expiry' = Zero64
    /\ lerr' = "nil"
    /\ certsAtFetch' = EmptyMap
    /\ lateWait' = FALSE
    /\ UNCHANGED <<send, failExpiry, firstFetch, nfetch, sharedVars, lockVars, govDone, now,
                   callVars>>

\* ------------------------------------------------------------- environment
\* The governing context is cancelled.
Cancel ==
    /\ ~govDone
    /\ govDone' = TRUE
    /\ UNCHANGED <<send, loopVars, sharedVars, lockVars, now, callVars>>

\* Time passes.
Tick ==
    /\ now < MaxTime
    /\ now' = now + 1
    /\ UNCHANGED <<send, loopVars, sharedVars, lockVars, govDone, callVars>>

\* ------------------------------------------------------------------ Verify
\* ctx.Done() of the context the call was given is closed.
CtxDone(i) == IF vctx[i] = "gov" THEN govDone ELSE ownDone[i]

\* if len(v.certs) == 0.
NeedWait(c) == DOMAIN c = {}

\* case <-v.haveCerts: a receive from the channel is ready once it is closed.
HaveCertsReady(h) == h = "closed"

\* key, ok := v.certs[kid].
Lookup(c, kid) ==
    [ok |-> kid \in DOMAIN c, key |-> IF kid \in DOMAIN c THEN c[kid] ELSE NoKey]

\* A call of Verify with a token of toks: parse, alg and kid.
VerifyStart(i, toks) ==
    /\ vpc[i] = "idle"
    /\ \E tok \in toks, c \in {"gov", "own"} :
          /\ vtok' = [vtok EXCEPT ![i] = tok]
          /\ vctx' = [vctx EXCEPT ![i] = c]
          /\ LET e == CheckHeader(tok) IN
                IF e # "nil"
                THEN /\ result' = [result EXCEPT ![i] = Fail(e)]
                     /\ vpc' = [vpc EXCEPT ![i] = "done"]
                ELSE /\ result' = result
                     /\ vpc' = [vpc EXCEPT ![i] = "rlock"]
    /\ sigAtStart' = [sigAtStart EXCEPT ![i] = (haveCerts = "closed")]
    /\ UNCHANGED <<send, ownDone, vok, vkey, vnow, loopVars, sharedVars, lockVars, govDone, now>>

\* v.mu.RLock().
VerifyRLock(i) ==
    /\ vpc[i] = "rlock"
    /\ ~writer
    /\ readers' = readers + 1
    /\ vpc' = [vpc EXCEPT ![i] = "locked"]
    /\ UNCHANGED <<send, vtok, vctx, ownDone, vok, vkey, vnow, sigAtStart, result, loopVars,
                   sharedVars, writer, govDone, now>>

\* VerifyLocked that goes to the select with the read lock still held.
VerifyLockedKeepsLock(i) ==
    /\ vpc[i] = "locked"
    /\ IF NeedWait(certs)
       THEN /\ vpc' = [vpc EXCEPT ![i] = "wait"]
            /\ UNCHANGED <<readers, vok, vkey>>
       ELSE /\ readers' = readers - 1
            /\ vok' = [vok EXCEPT ![i] = Lookup(certs, AsString(vtok[i].kid)).ok]
            /\ vkey' = [vkey EXCEPT ![i] = Lookup(certs, AsString(vtok[i].kid)).key]
            /\ vpc' = [vpc EXCEPT ![i] = "verify"]
    /\ UNCHANGED <<send, vtok, vctx, ownDone, vnow, sigAtStart, result, loopVars, sharedVars,
                   writer, govDone, now>>

\* Under the read lock: with no certs RUnlock and go to the select, else
\* key, ok := v.certs[kid]; RUnlock.
VerifyLocked(i) ==
    /\ vpc[i] = "locked"
    /\ readers' = readers - 1
    /\ IF NeedWait(certs)
       THEN /\ vpc' = [vpc EXCEPT ![i] = "wait"]
            /\ UNCHANGED <<vok, vkey>>
       ELSE /\ vok' = [vok EXCEPT ![i] = Lookup(certs, AsString(vtok[i].kid)).ok]
            /\ vkey' = [vkey EXCEPT ![i] = Lookup(certs, AsString(vtok[i].kid)).key]
            /\ vpc' = [vpc EXCEPT ![i] = "verify"]
    /\ UNCHANGED <<send, vtok, vctx, ownDone, vnow, sigAtStart, result, loopVars, sharedVars,
                   writer, govDone, now>>

\* select: case <-ctx.Done(): return nil, ctx.Err().
VerifyCancelled(i) ==
    /\ vpc[i] = "wait"
    /\ CtxDone(i)
    /\ result' = [result EXCEPT ![i] = Fail(ErrContext)]
    /\ vpc' = [vpc EXCEPT ![i] = "done"]
    /\ UNCHANGED <<send, vtok, vctx, ownDone, vok, vkey, vnow, sigAtStart, loopVars, sharedVars,
                   lockVars, govDone, now>>

\* A receive that takes the signal away, as one from a channel that was sent
\* a value instead of closed.
VerifyWakeConsuming(i) ==
    /\ vpc[i] = "wait"
    /\ HaveCertsReady(haveCerts)
    /\ haveCerts' = "open"
    /\ vpc' = [vpc EXCEPT ![i] = "relock"]
    /\ UNCHANGED <<send, vtok, vctx, ownDone, vok, vkey, vnow, sigAtStart, result, loopVars,
                   certs, closes, everLoaded, announced, lockVars, govDone, now>>

\* select: case <-v.haveCerts.
VerifyWake(i) ==
    /\ vpc[i] = "wait"
    /\ HaveCertsReady(haveCerts)
    /\ vpc' = [vpc EXCEPT ![i] = "relock"]
    /\ UNCHANGED <<send, vtok, vctx, ownDone, vok, vkey, vnow, sigAtStart, result, loopVars,
                   sharedVars, lockVars, govDone, now>>

\* v.mu.RLock() after the wait.
VerifyRelock(i) ==
    /\ vpc[i] = "relock"
    /\ ~writer
    /\ readers' = readers + 1
    /\ vpc' = [vpc EXCEPT ![i] = "lookup"]
    /\ UNCHANGED <<send, vtok, vctx, ownDone, vok, vkey, vnow, sigAtStart, result, loopVars,
                   sharedVars, writer, govDone, now>>

\* key, ok := v.certs[kid]; v.mu.RUnlock(), after the wait.
VerifyLookup(i) ==
    /\ vpc[i] = "lookup"
    /\ readers' = readers - 1
    /\ vok' = [vok EXCEPT ![i] = Lookup(certs, AsString(vtok[i].kid)).ok]
    /\ vkey' = [vkey EXCEPT ![i] = Lookup(certs, AsString(vtok[i].kid)).key]
    /\ vpc' = [vpc EXCEPT ![i] = "verify"]
    /\ UNCHANGED <<send, vtok, vctx, ownDone, vnow, sigAtStart, result, loopVars, sharedVars,
                   writer, govDone, now>>

\* The rest of Verify: the unknown-kid and signature checks, now := time.Now(),
\* the claims, the User.
VerifyFinish(i) ==
    /\ vpc[i] = "verify"
    /\ vnow' = [vnow EXCEPT ![i] = now]
    /\ result' = [result EXCEPT ![i] = CheckToken(vtok[i], vok[i], vkey[i], now)]
    /\ vpc' = [vpc EXCEPT ![i] = "done"]
    /\ vok' = [vok EXCEPT ![i] = FALSE]
    /\ vkey' = [vkey EXCEPT ![i] = NoKey]
    /\ UNCHANGED <<send, vtok, vctx, ownDone, sigAtStart, loopVars, sharedVars, lockVars,
                   govDone, now>>

\* The caller cancels the context it gave to Verify.  Verify looks at its
\* context in the select only, so a cancellation before the select is the same
\* as one on reaching it.
CancelOwn(i) ==
    /\ vpc[i] = "wait"
    /\ vctx[i] = "own"
    /\ ~ownDone[i]
    /\ ownDone' = [ownDone EXCEPT ![i] = TRUE]
    /\ UNCHANGED <<send, vpc, vtok, vctx, vok, vkey, vnow, sigAtStart, result, loopVars,
                   sharedVars, lockVars, govDone, now>>

\* ------------------------------------------------------------- Client.Send
\* Send up to c.client.Do: json.Marshal(msg) fails and Send returns, or the
\* request goes out.
SendRequest ==
    /\ send.pc = "idle"
    /\ \E marshals \in BOOLEAN :
          send' = IF marshals THEN [pc |-> "do"]
                  ELSE [pc |-> "done", exchange |-> NoExchange,
                        result |-> SendFail(ErrorValue(ErrMarshal))]
    /\ UNCHANGED <<loopVars, sharedVars, lockVars, govDone, now, callVars>>

\* c.client.Do returns and Send maps the outcome to its result.
SendResponse ==
    /\ send.pc = "do"
    /\ \E x \in Exchanges :
          send' = [pc |-> "done", exchange |-> x, result |-> Respond(x)]
    /\ UNCHANGED <<loopVars, sharedVars, lockVars, govDone, now, callVars>>

\* ---------------------------------------------------------- specifications
Loop ==
    \/ LoopFetch(Responses, MaxFetches)
    \/ LoopLock
    \/ LoopPublish
    \/ LoopSignal
    \/ LoopCheckCerts
    \/ LoopExit
    \/ LoopTimer

Call(i) ==
    \/ VerifyRLock(i)
    \/ VerifyLocked(i)
    \/ VerifyCancelled(i)
    \/ VerifyWake(i)
    \/ VerifyRelock(i)
    \/ VerifyLookup(i)
    \/ VerifyFinish(i)

Next ==
    \/ Loop
    \/ \E i \in Callers : VerifyStart(i, SampleTokens)
    \/ \E i \in Callers : Call(i)
    \/ \E i \in Callers : CancelOwn(i)
    \/ Cancel

\* The refresh loop with concurrent Verify calls.
Spec == Init /\ [][Next]_vars

\* The same under the scheduling the runtime gives: a goroutine that can
\* run does run, a request ends, a timer fires.  Nothing obliges a caller to
\* call Verify or anyone to cancel a context.
FairResponses ==
    {TransportError, OkResponse(EmptyMap, <<>>), OkResponse(IssuerCerts, <<MaxAgeDir(Zero64)>>)}
FairTokens == {GoodToken("k1", "keyA", 0)}

FairLoop ==
    \/ LoopFetch(FairResponses, MaxFetches)
    \/ LoopLock
    \/ LoopPublish
    \/ LoopSignal
    \/ LoopCheckCerts
    \/ LoopExit
    \/ LoopTimer

FairNext ==
    \/ FairLoop
    \/ \E i \in Callers : VerifyStart(i, FairTokens)
    \/ \E i \in Callers : Call(i)
    \/ \E i \in Callers : CancelOwn(i)
    \/ Cancel

FairSpec ==
    /\ Init
    /\ [][FairNext]_vars
    /\ WF_vars(FairLoop)
    /\ \A i \in Callers : WF_vars(Call(i))

\* Verify alone, once the first fetch has published the issuer's keys and the
\* loop sleeps until the next refresh: one caller, tokens of every shape, the
\* clock running.
TimeClaims == {Absent, Str("soon")} \cup {Num(t) : t \in 0..(MaxTime + 1)}
AudClaims == {Absent, Num(7), Str(projectID), Str("some-other-project-id")}
IssClaims ==
    {Absent, Str(issuer), Str("https://securetoken.google.com/some-other-project-id"),
     Str("some-random-value")}
SubClaims == {Absent, Num(7), Str(""), Str("sub"), Str("some-other-value")}
EmailClaims == {Absent, Num(7), Str("foo@example.com")}
EmailVerifiedClaims == {Absent, Str("true"), Bool(TRUE), Bool(FALSE)}
ProviderClaims == {Absent, Bool(TRUE), Str("some-provider")}

\* Tokens whose claims are in order and whose header, signature or payload vary.
HeaderTokens ==
    {[GoodToken("k1", "keyA", MaxTime + 1) EXCEPT
          !.parses = p, !.alg = a, !.kid = k, !.signer = g, !.isMap = m] :
        p \in BOOLEAN, a \in {Str("RS256"), Str("HS256"), Absent},
        k \in {Str("k1"), Str("k2"), Str("k3"), Num(1), Absent},
        g \in {"keyA", "keyB", "forged"}, m \in BOOLEAN}
\* Correctly signed tokens whose required claims vary.
ClaimTokens ==
    {Token(Str("RS256"), Str("k1"), "keyA", e, a, d, s, b, u, Absent, Absent, Absent) :
        e \in TimeClaims, a \in TimeClaims, d \in AudClaims, s \in IssClaims,
        b \in SubClaims, u \in SubClaims}
\* Correctly signed tokens with the required claims in order, whose times and
\* optional claims vary.
OptionalTokens ==
    {[GoodToken(k, IssuerKeys[k], e) EXCEPT
          !.iat = Num(a), !.email = m, !.email_verified = v, !.sign_in_provider = p] :
        k \in Kids, e \in 0..(MaxTime + 1), a \in 0..(MaxTime + 1), m \in EmailClaims,
        v \in EmailVerifiedClaims, p \in ProviderClaims}
\* Tokens whose header, signature or payload vary and whose payload holds none
\* of the claims.
BareTokens ==
    {[tok EXCEPT !.exp = Absent, !.iat = Absent, !.aud = Absent, !.iss = Absent,
                 !.sub = Absent, !.user_id = Absent] : tok \in HeaderTokens}
AllTokens == HeaderTokens \cup ClaimTokens \cup OptionalTokens \cup BareTokens

VerifyCallers == {1}

VerifyInit ==
    /\ certs = IssuerKeys
    /\ haveCerts = "closed"
    /\ closes = 1
    /\ readers = 0
    /\ writer = FALSE
    /\ govDone = FALSE
    /\ now = 0
    /\ lpc = "select"
    /\ fetched = IssuerKeys
    /\ expiry = DefaultDuration
    /\ lerr = "nil"
    /\ failExpiry = Seconds(InitialFailExpiry)
    /\ firstFetch = FALSE
    /\ nfetch = 1
    /\ certsAtFetch = EmptyMap
    /\ lateWait = FALSE
    /\ everLoaded = TRUE
    /\ announced = IssuerKeys
    /\ okResp = OkResponse(IssuerCerts, <<>>)
    /\ afterOk = FALSE
    /\ vpc = [i \in Callers |-> "idle"]
    /\ vtok = [i \in Callers |-> GoodToken("k1", "keyA", 0)]
    /\ vctx = [i \in Callers |-> "gov"]
    /\ ownDone = [i \in Callers |-> FALSE]
    /\ vok = [i \in Callers |-> FALSE]
    /\ vkey = [i \in Callers |-> NoKey]
    /\ vnow = [i \in Callers |-> 0]
    /\ sigAtStart = [i \in Callers |-> FALSE]
    /\ result = [i \in Callers |-> Pending]
    /\ send = NoSend

VerifyNext ==
    \/ \E i \in VerifyCallers : VerifyStart(i, AllTokens)
    \/ \E i \in VerifyCallers : VerifyRLock(i)
    \/ \E i \in VerifyCallers : VerifyLocked(i)
    \/ \E i \in VerifyCallers : VerifyFinish(i)
    \/ Tick

VerifySpec == VerifyInit /\ [][VerifyNext]_vars

\* The refresh loop alone through an outage of the key endpoint: requests
\* fail in the transport or in the decoding, or are answered with no key at
\* all; now and then the issuer's keys come through.
OutageResponses ==
    {TransportError, DecodeError, OkResponse(EmptyMap, <<>>), OkResponse(IssuerCerts, <<>>)}

OutageNext ==
    \/ LoopFetch(OutageResponses, MaxRounds)
    \/ LoopLock
    \/ LoopPublish
    \/ LoopSignal
    \/ LoopCheckCerts
    \/ LoopExit
    \/ LoopTimer
    \/ Cancel

OutageSpec == Init /\ [][OutageNext]_vars

\* The refresh loop alone, the key endpoint answering with the issuer's
\* certificates under Cache-Control headers of every shape: up to two
\* directives, each one a max-age with an argument Atoi accepts (zero, two
\* minutes, a negative number, ten and twenty thousand million), a max-age
\* with an argument it rejects, or another directive.
MaxAges ==
    {Zero64, I64(120), Neg64(I64(5)), Mul64(I64(100000), I64(100000)),
     Mul64(I64(200000), I64(100000))}
Directives == {OtherDir, BadMaxAgeDir} \cup {MaxAgeDir(n) : n \in MaxAges}
Headers == {<<>>} \cup {<<d>> : d \in Directives}
               \cup {<<d, e>> : <<d, e>> \in Directives \X Directives}
HeaderResponses == {TransportError} \cup {OkResponse(IssuerCerts, cc) : cc \in Headers}

HeaderNext ==
    \/ LoopFetch(HeaderResponses, MaxFetches)
    \/ LoopLock
    \/ LoopPublish
    \/ LoopSignal
    \/ LoopCheckCerts
    \/ LoopExit
    \/ LoopTimer
    \/ Cancel

HeaderSpec == Init /\ [][HeaderNext]_vars

\* The cold start: both callers called Verify with the same token before any
\* fetch ended, found no certs and stand in their select, under the governing
\* context.  The loop fetches and refreshes, the clock runs.
ColdInit ==
    /\ certs = EmptyMap
    /\ haveCerts = "open"
    /\ closes = 0
    /\ readers = 0
    /\ writer = FALSE
    /\ govDone = FALSE
    /\ now = 0
    /\ lpc = "fetch"
    /\ fetched = EmptyMap
    /\ expiry = Zero64
    /\ lerr = "nil"
    /\ failExpiry = Seconds(InitialFailExpiry)
    /\ firstFetch = TRUE
    /\ nfetch = 0
    /\ certsAtFetch = EmptyMap
    /\ lateWait = FALSE
    /\ everLoaded = FALSE
    /\ announced = EmptyMap
    /\ okResp = NoResponse
    /\ afterOk = FALSE
    /\ vpc = [i \in Callers |-> "wait"]
    /\ vtok = [i \in Callers |-> GoodToken("k1", "keyA", 0)]
    /\ vctx = [i \in Callers |-> "gov"]
    /\ ownDone = [i \in Callers |-> FALSE]
    /\ vok = [i \in Callers |-> FALSE]
    /\ vkey = [i \in Callers |-> NoKey]
    /\ vnow = [i \in Callers |-> 0]
    /\ sigAtStart = [i \in Callers |-> FALSE]
    /\ result = [i \in Callers |-> Pending]
    /\ send = NoSend

ColdNext ==
    \/ Loop
    \/ \E i \in Callers : VerifyCancelled(i)
    \/ \E i \in Callers : VerifyWake(i)
    \/ \E i \in Callers : VerifyRelock(i)
    \/ \E i \in Callers : VerifyLookup(i)
    \/ \E i \in Callers : VerifyFinish(i)
    \/ Cancel
    \/ Tick

ColdSpec == ColdInit /\ [][ColdNext]_vars

\* The refresh loop with a single caller of Verify, who calls with any of the
\* sample tokens under the governing context or one of its own and may cancel.
SoloNext ==
    \/ Loop
    \/ \E i \in VerifyCallers : VerifyStart(i, SampleTokens)
    \/ \E i \in VerifyCallers : Call(i)
    \/ \E i \in VerifyCallers : CancelOwn(i)
    \/ Cancel

SoloSpec == Init /\ [][SoloNext]_vars

\* One call of Client.Send against an FCM server answering with any status.
SendNext ==
    \/ SendRequest
    \/ SendResponse

SendSpec == Init /\ [][SendNext]_vars

\* ------------------------------------------------------------------ claims
\* C1: once a non-empty key set has been published, the published key set
\* (Verifier.certs) is never empty again, whatever the later fetches return.
C1_NeverEmptyOncePublished == everLoaded => DOMAIN certs # {}

\* C2: a fetch attempt that failed (transport, decode or certificate parse
\* error) leaves the published key set as it was when the attempt started:
\* the same key ids resolve to the same keys.
C2_FailedFetchKeepsCerts ==
    (lpc \in {"rlock", "select"} /\ lerr # "nil") => certs = certsAtFetch
\* A certificate of the response failed to parse while keys were published,
\* and the loop has handled the failure.
C2_Witness == lpc = "select" /\ lerr = "pem" /\ DOMAIN certs # {}

\* C3: under fair scheduling every Verify call blocked in the wait for the
\* first key set returns once a non-empty key set is published.
C3_WaitersReturn ==
    \A i \in Callers : (vpc[i] = "wait" /\ DOMAIN certs # {}) ~> (vpc[i] = "done")
\* Every caller is blocked in the wait at the moment the first non-empty key
\* set is published and not yet announced.
C3_Witness ==
    /\ \A i \in Callers : vpc[i] = "wait" /\ ~CtxDone(i)
    /\ DOMAIN certs # {}
    /\ haveCerts = "open"

\* C4: while no non-empty key set has ever been published, a Verify call
\* whose token has alg RS256 and a string kid has returned nothing but the
\* error of its own context, and that context is cancelled.
C4_ColdStartOnlyCancel ==
    ~everLoaded =>
        \A i \in Callers :
            (vpc[i] = "done" /\ CheckHeader(vtok[i]) = "nil")
                => (result[i] = Fail(ErrContext) /\ CtxDone(i))
\* A call has returned the cancellation error after a fetch attempt, with no
\* key set ever published.
C4_Witness ==
    /\ ~everLoaded
    /\ nfetch > 0
    /\ \E i \in Callers : vpc[i] = "done" /\ result[i] = Fail(ErrContext)

\* C5: a Verify call started after haveCerts was closed never blocks: when it
\* reaches the select, haveCerts is still closed and its receive is ready,
\* also after failed fetches and fetches that returned zero keys.
C5_NoWaitAfterSignal ==
    \A i \in Callers :
        (sigAtStart[i] /\ vpc[i] = "wait") => (haveCerts = "closed" /\ ENABLED VerifyWake(i))
\* A call started after the signal finds no certs (a later fetch returned
\* zero keys) and reaches the select.
C5_Witness == \E i \in Callers : sigAtStart[i] /\ vpc[i] = "wait" /\ ~CtxDone(i)

\* C6: when the governing context is cancelled before any key set has
\* loaded, every Verify call blocked in the wait eventually returns a
\* cancellation error.  Stated for the calls still blocked when the refresh
\* loop has stopped on the cancellation, so that no key set loads any more.
C6_GovCancelReleasesWaiters ==
    \A i \in Callers :
        (govDone /\ ~everLoaded /\ lpc = "done" /\ vpc[i] = "wait")
            ~> (result[i] = Fail(ErrContext))

\* C7: at a wait between refreshes that the loop reaches after the governing
\* context was cancelled, the loop exits and starts no further fetch.
C7_ExitsAtFirstWait == [][(lpc = "select" /\ lateWait) => lpc' # "fetch"]_vars

\* C8: haveCerts is closed at most once, for every sequence of fetch outcomes.
C8_ClosedAtMostOnce == closes <= 1
\* A second successful fetch with keys has been handled after the channel
\* was closed.
C8_Witness ==
    /\ lpc = "select"
    /\ lerr = "nil"
    /\ DOMAIN fetched # {}
    /\ DOMAIN certsAtFetch # {}
    /\ closes = 1

\* C9: when haveCerts is closed the non-empty key set it announces is already
\* published, and a Verify call released by the signal that looks up before
\* any further refresh finds every key id of that key set.
C9_PublishThenSignal ==
    DOMAIN announced # {} =>
        /\ certs = announced
        /\ \A i \in Callers :
              vpc[i] = "lookup" =>
                  \A k \in DOMAIN announced :
                      Lookup(certs, k) = [ok |-> TRUE, key |-> announced[k]]
\* A call that waited is about to look up in the key set just announced.
C9_Witness ==
    /\ DOMAIN announced # {}
    /\ \E i \in Callers : vpc[i] = "lookup" /\ ~sigAtStart[i]

C11_UnknownKidRejected ==
    \A i \in Callers :
        (/\ sigAtStart[i]
         /\ vpc[i] = "done"
         /\ CheckHeader(vtok[i]) = "nil"
         /\ AsString(vtok[i].kid) \notin Kids)
        => result[i] = Fail(ErrUnknownKid)

\* C12: for a correctly signed token, Verify returns the expired-token
\* failure unless exp is present and strictly after the time the call reads:
\* a missing exp, an exp before now and an exp equal to now are all rejected.
C12_ExpiredUnlessFuture ==
    \A i \in Callers :
        LET tok == vtok[i] IN
        (/\ vpc[i] = "done"
         /\ tok.parses /\ tok.isMap
         /\ tok.alg = Str("RS256")
         /\ tok.kid.t = "str" /\ tok.kid.v \in DOMAIN certs /\ certs[tok.kid.v] = tok.signer
         /\ ~(tok.exp.t = "num" /\ tok.exp.v > vnow[i]))
        => result[i] = Fail(ErrExpired)

C14_AudienceThenIssuer ==
    \A i \in Callers :
        LET tok == vtok[i] IN
        (/\ vpc[i] = "done"
         /\ tok.parses /\ tok.isMap
         /\ tok.alg = Str("RS256")
         /\ tok.kid.t = "str" /\ tok.kid.v \in DOMAIN certs /\ certs[tok.kid.v] = tok.signer
         /\ tok.exp.t = "num" /\ tok.exp.v > vnow[i]
         /\ tok.iat.t = "num" /\ tok.iat.v <= vnow[i])
        => /\ tok.aud # Str("projectID") => result[i] = Fail(ErrAudience)
           /\ (/\ tok.aud = Str("projectID")
               /\ tok.iss # Str("https://securetoken.google.com/projectID"))
              => result[i] = Fail(ErrIssuer)
\* A call has returned the issuer failure for a token of the right audience
\* that carries the issuer URL of another project.
C14_Witness ==
    \E i \in Callers :
        /\ vpc[i] = "done"
        /\ vtok[i].aud = Str("projectID")
        /\ vtok[i].iss = Str("https://securetoken.google.com/some-other-project-id")
        /\ result[i] = Fail(ErrIssuer)

\* C15: for a correctly signed token that passes the exp, iat, aud and iss
\* checks, Verify returns the subject failure, and no User, whenever sub or
\* user_id is missing, not a string, empty, or the two differ.
C15_SubjectRejected ==
    \A i \in Callers :
        LET tok == vtok[i] IN
        (/\ vpc[i] = "done"
         /\ tok.parses /\ tok.isMap
         /\ tok.alg = Str("RS256")
         /\ tok.kid.t = "str" /\ tok.kid.v \in DOMAIN certs /\ certs[tok.kid.v] = tok.signer
         /\ tok.exp.t = "num" /\ tok.exp.v > vnow[i]
         /\ tok.iat.t = "num" /\ tok.iat.v <= vnow[i]
         /\ tok.aud = Str("projectID")
         /\ tok.iss = Str("https://securetoken.google.com/projectID")
         /\ \/ tok.sub.t # "str" \/ tok.sub.v = ""
            \/ tok.user_id.t # "str" \/ tok.user_id.v = ""
            \/ tok.sub # tok.user_id)
        => /\ result[i] = Fail(ErrSubject)
           /\ ~result[i].isUser
\* A call has returned the subject failure for a token whose sub and user_id
\* are both non-empty strings, but different ones.
C15_Witness ==
    \E i \in Callers :
        /\ vpc[i] = "done"
        /\ vtok[i].sub = Str("sub")
        /\ vtok[i].user_id = Str("some-other-value")
        /\ result[i] = Fail(ErrSubject)

\* C16: while no key set is published, the wait after a failed fetch is 1
\* second after the first failure and doubles with each further one, and the
\* sequence of waits is strictly increasing however many failures follow one
\* another: the wait armed after a failure is shorter than the wait the next
\* failure will arm.
C16_WaitsIncrease ==
    (/\ lpc = "select"
     /\ lerr # "nil"
     /\ DOMAIN certs = {})
    => /\ nfetch = 1 => expiry = Seconds(1)
       /\ failExpiry = Mul64(expiry, I64(2))
       /\ Less64(expiry, failExpiry)

\* C17: a successful fetch resets the cold-start backoff: the first failed
\* fetch with no key set published that follows a successful fetch waits the
\* initial 1 second again.
C17_SuccessResetsBackoff ==
    [][(/\ lpc = "rlock"
        /\ lpc' = "select"
        /\ afterOk
        /\ DOMAIN certs = {})
       => expiry' = Seconds(1)]_vars

\* n * 10^9 as a natural number of twelve bytes, which hold the product of
\* any int64 with time.Second without wrapping.
RECURSIVE WideProduct(_, _, _)
WideProduct(a, p, carry) ==
    IF p > 12 THEN <<>>
    ELSE LET s == Column(a, Second, p) + carry
         IN  <<s % 256>> \o WideProduct(a, p + 1, s \div 256)
\* The Duration d is n seconds, for a non-negative n.
IsSeconds(d, n) ==
    /\ ~IsNeg64(d)
    /\ d \o <<0, 0, 0, 0>> = WideProduct(n \o <<0, 0, 0, 0>>, 1, 0)

\* C18: after a successful fetch the wait before the next refresh is the one
\* the Cache-Control header gives: N seconds when its max-age directive is a
\* non-negative integer N, the 10-minute default when it has no max-age
\* directive or one whose argument is not an integer or is negative.
C18_WaitFollowsHeader ==
    (lpc = "select" /\ lerr = "nil")
    => LET maxAges == SelectSeq(okResp.cacheControl, LAMBDA d : d.name = "max-age") IN
       /\ Len(maxAges) = 0 => expiry = Seconds(600)
       /\ Len(maxAges) = 1 =>
             IF maxAges[1].num /\ ~IsNeg64(maxAges[1].val)
             THEN IsSeconds(expiry, maxAges[1].val)
             ELSE expiry = Seconds(600)

\* C19: after a successful fetch of a non-empty response with key ids K the
\* published key set has exactly the ids K: each id of K resolves to the key
\* parsed from its certificate, every other id, those of the previous key set
\* included, is not found.
C19_PublishedIsFetched ==
    (/\ lpc \in {"signal", "select"}
     /\ lerr = "nil"
     /\ DOMAIN okResp.body # {})
    => \A k \in Kids \cup {"k3"} :
          Lookup(certs, k) =
              IF k \in DOMAIN okResp.body
              THEN [ok |-> TRUE, key |-> IF okResp.body[k] = "pemA" THEN "keyA" ELSE "keyB"]
              ELSE [ok |-> FALSE, key |-> NoKey]
\* A response with the single id k2 was fetched and published while the key
\* set held the id k1.
C19_Witness ==
    /\ lpc = "select"
    /\ lerr = "nil"
    /\ DOMAIN okResp.body = {"k2"}
    /\ DOMAIN certsAtFetch = {"k1"}
    /\ DOMAIN certs = {"k2"}

\* C20: for calls issued before any key set loaded and released by the first
\* load, the result is a function of the token and of the first published key
\* set only, whatever the interleaving with the refresh loop and however long
\* the call waited: two such calls of one run, which share the first key set,
\* return the same result for the same token.  (Under ColdSpec every call was
\* issued before the load and stands in its select; one that does not return
\* its context's error was released by the load.)
C20_ReleasedCallsAgree ==
    \A i, j \in Callers :
        (/\ vpc[i] = "done" /\ vpc[j] = "done"
         /\ ~sigAtStart[i] /\ ~sigAtStart[j]
         /\ result[i] # Fail(ErrContext) /\ result[j] # Fail(ErrContext)
         /\ vtok[i] = vtok[j])
        => result[i] = result[j]

\* C21: Client.Send maps the HTTP status of the FCM response to its result
\* for every status: 401 gives ErrAuthenticationFailure, every status from
\* 500 to 599 a *ServerError whose StatusCode is that status, 400 and every
\* other status but 200 an error with a nil Response; a non-nil Response with
\* a nil error is returned for status 200 only.
C21_StatusMapsToResult ==
    (send.pc = "done" /\ send.exchange.kind = "response")
    => LET s == send.exchange.status
           r == send.result IN
       /\ s = 401 => r.err = [type |-> "error", msg |-> "fcm: authentication failure",
                              StatusCode |-> 0, RetryAfter |-> Zero64]
       /\ s \in 500..599 => (r.err.type = "*ServerError" /\ r.err.StatusCode = s)
       /\ s # 200 => (~r.response /\ r.err.type # "nil")
       /\ (r.response /\ r.err.type = "nil") => s = 200
       /\ r.response <=> r.err.type = "nil"
\* Send has returned a *ServerError for status 500, the low end of the range.
C21_Witness ==
    /\ send.pc = "done"
    /\ send.exchange.kind = "response"
    /\ send.exchange.status = 500
    /\ send.result.err.type = "*ServerError"
    /\ send.result.err.StatusCode = 500

\* C22: when a fetch fails while a non-empty key set is published, the loop
\* waits the default refresh interval of 10 minutes before the next attempt,
\* as after a successful fetch without a cache-lifetime hint; it does not
\* retry at once.
C22_FailureKeepsCadence ==
    (/\ lpc = "select"
     /\ lerr # "nil"
     /\ DOMAIN certs # {})
    => expiry = Seconds(600)

\* C23: a fetch that succeeds with zero keys while no key set is published is
\* handled as a cold-start failure: the wait it arms is the backoff interval,
\* 1 second for the first attempt, and the backoff has doubled; it is not the
\* cache-lifetime interval of the response.
C23_ZeroKeysIsColdFailure ==
    (/\ lpc = "select"
     /\ lerr = "nil"
     /\ DOMAIN fetched = {}
     /\ DOMAIN certsAtFetch = {})
    => /\ nfetch = 1 => expiry = Seconds(1)
       /\ failExpiry = Mul64(expiry, I64(2))

\* C24: the time against which Verify compares exp and iat is the time at
\* which the call started, also when the call first blocked in the wait for
\* the first key set.  (Under ColdSpec every call started at time 0, before
\* the first fetch ended; a call that got as far as the claims has read the
\* time it compares them with.)
C24_TimeReadAtCallStart ==
    \A i \in Callers :
        (/\ vpc[i] = "done"
         /\ result[i].err \notin {ErrContext, ErrUnknownKid, ErrSignature})
        => vnow[i] = 0

\* The checks of a call in the order of C25, each with the failure it reports
\* and whether the token fails it, against the key set c and the time t.
\* The test of the payload type, which reads no claim, stands between the
\* signature and exp.
ChecksInOrder(tok, c, t) ==
    LET kid == IF tok.kid.t = "str" THEN tok.kid.v ELSE "" IN
    <<[err |-> "auth: parse error", fails |-> ~tok.parses],
      [err |-> "auth: alg is not RS256", fails |-> tok.alg # Str("RS256")],
      [err |-> "auth: invalid kid", fails |-> tok.kid.t # "str"],
      [err |-> "auth: unknown kid", fails |-> kid \notin DOMAIN c],
      [err |-> "auth: verification failure",
       fails |-> kid \in DOMAIN c /\ c[kid] # tok.signer],
      [err |-> "auth: unexpected payload type", fails |-> ~tok.isMap],
      [err |-> "auth: expired token", fails |-> tok.exp.t # "num" \/ tok.exp.v < t],
      [err |-> "auth: token issued in the future",
       fails |-> tok.iat.t # "num" \/ tok.iat.v > t],
      [err |-> "auth: unexpected project ID", fails |-> tok.aud # Str("projectID")],
      [err |-> "auth: unexpected issuer",
       fails |-> tok.iss # Str("https://securetoken.google.com/projectID")],
      [err |-> "auth: invalid sub or user_id",
       fails |-> \/ tok.sub.t # "str" \/ tok.sub.v = ""
                 \/ tok.user_id.t # "str" \/ tok.user_id.v = ""
                 \/ tok.sub # tok.user_id]>>

\* C25: Verify checks in a fixed order and reports the first failure only:
\* token parse, alg, kid, key lookup, signature, exp, iat, aud, iss,
\* sub/user_id.  The failure a call returns is that of the earliest check in
\* this order that its token fails, whatever later checks it fails too, and
\* a call returns no failure only when its token fails no check.
C25_FirstFailureOnly ==
    \A i \in Callers :
        vpc[i] = "done" =>
            LET checks == ChecksInOrder(vtok[i], certs, vnow[i])
                failing == {n \in DOMAIN checks : checks[n].fails}
            IN  IF failing = {} THEN result[i].err = "nil"
                ELSE \E n \in failing :
                        /\ \A k \in failing : n <= k
                        /\ result[i] = Fail(checks[n].err)
\* A call has returned the audience failure for a token that also fails the
\* issuer and the subject checks.
C25_Witness ==
    \E i \in Callers :
        /\ vpc[i] = "done"
        /\ result[i] = Fail(ErrAudience)
        /\ vtok[i].aud = Str("some-other-project-id")
        /\ vtok[i].iss = Str("some-random-value")
        /\ vtok[i].sub = Str("")

\* C26: a Verify call holds the read lock only while it tests whether a key
\* set is present and while it looks up the kid: the read locks held are
\* those of the calls at these two places, so a call that waits for the
\* first-load signal or has returned, on any path, holds none.  When no call
\* is at one of the two places the refresh loop can take the write lock,
\* however many calls wait; a call that holds the read lock can always go on
\* and release it, and a call that wants it is held up only while the loop
\* is about to publish and unlock: the system never deadlocks.
C26_LockOnlyAroundReads ==
    /\ readers = Cardinality({i \in Callers : vpc[i] \in {"locked", "lookup"}})
    /\ writer <=> lpc = "write"
    /\ (lpc = "lock" /\ \A i \in Callers : vpc[i] \notin {"locked", "lookup"})
          => ENABLED LoopLock
    /\ \A i \in Callers :
          /\ vpc[i] \in {"locked", "lookup"} => ENABLED Call(i)
          /\ vpc[i] \in {"rlock", "relock"} => (ENABLED Call(i) \/ ENABLED LoopPublish)
\* The refresh loop holds the write lock while every caller waits for the
\* first-load signal.
C26_Witness ==
    /\ lpc = "write"
    /\ writer
    /\ \A i \in Callers : vpc[i] = "wait"

\* C27: a Verify lookup reads one complete published key set.  While the
\* refresh loop replaces key set A (the one published when it fetched) by key
\* set B (the one it fetched), a lookup never runs while the loop writes:
\* one made before the write gives the answer of A, one made after it the
\* answer of B, and the lookup leaves the key set as it is.
C27_LookupSeesOneKeySet ==
    [][\A i \in Callers :
          (vpc[i] \in {"locked", "lookup"} /\ vpc'[i] = "verify")
          => LET kid == vtok[i].kid.v
                 answer == [ok |-> vok'[i], key |-> vkey'[i]]
             IN  /\ ~writer /\ lpc # "write"
                 /\ certs' = certs
                 /\ lpc = "lock" => answer = Lookup(certsAtFetch, kid)
                 /\ (lpc \in {"signal", "select"} /\ lerr = "nil")
                       => answer = Lookup(fetched, kid)
                 /\ (lpc \in {"rlock", "select"} /\ lerr # "nil")
                       => answer = Lookup(certsAtFetch, kid)
                 /\ answer \in {Lookup(certs, kid), Lookup(fetched, kid)}]_vars
\* A call has found its key in the key set with the single id k1 while the
\* loop stands at Lock to replace it by the key set with the single id k2.
C27_Witness ==
    /\ lpc = "lock"
    /\ DOMAIN certs = {"k1"}
    /\ DOMAIN fetched = {"k2"}
    /\ \E i \in Callers : vpc[i] = "verify" /\ vok[i] /\ vkey[i] = "keyA"

\* C28: Verify is read-only on the cache: no step of a Verify call, whatever
\* its token, its result or its cancellation, changes the published key set
\* or the state of the first-load signal; only the refresh loop writes them,
\* the key set in its publication and the signal in the step after it.
C28_VerifyReadOnly ==
    [][/\ (vpc' # vpc \/ ownDone' # ownDone \/ result' # result)
             => (certs' = certs /\ haveCerts' = haveCerts /\ closes' = closes)
       /\ certs' # certs => (lpc = "write" /\ lpc' = "signal")
       /\ (haveCerts' # haveCerts \/ closes' # closes)
             => (lpc = "signal" /\ lpc' = "select")]_vars
\* A call that waited for the first-load signal has returned a User while the
\* key set is published and the signal given.
C28_Witness ==
    /\ haveCerts = "closed"
    /\ DOMAIN certs # {}
    /\ \E i \in Callers : vpc[i] = "done" /\ ~sigAtStart[i] /\ result[i].isUser

====
